---------------------------- MODULE Spec2Model ----------------------------
(***************************************************************************)
(* Wake-on-LAN console program (src/main.cpp): configuration validation,   *)
(* MAC parsing, magic packet construction and the broadcast send, modelled *)
(* as a state machine.                                                     *)
(*                                                                         *)
(* A wide string is a sequence of characters; a character is a TLA+ string *)
(* (usually of length one) whose code point is given by Ord.  Offsets into *)
(* strings and arrays are 0-based as in the source: s.at(i) is s[i + 1].   *)
(***************************************************************************)
EXTENDS Integers, Sequences, FiniteSets, TLC

VARIABLES
    pc,            \* position in main() / SendMagicPacket, or in a direct call
    debugBuild,    \* TRUE: assert() is compiled in (NDEBUG not defined)
    iniFile,       \* outcome of locating config.ini (lines 339-353)
    iniMac,        \* [Target] MacAddress in config.ini
    iniIp,         \* [Target] BroadcastIp in config.ini
    iniPort,       \* [Target] Port in config.ini
    mMacAddress,   \* WolConfig::mMacAddress
    mBroadcastIp,  \* WolConfig::mBroadcastIp
    mPort,         \* WolConfig::mPort
    errorCode,     \* main(): errorCode
    wolErrorCode,  \* SendMagicPacket: the code it is about to return
    macBytes,      \* SendMagicPacket: macBytes
    packet,        \* SendMagicPacket: packet
    destAddr,      \* SendMagicPacket: destAddr (sockaddr_in)
    guards,        \* the WsaGuard objects: lifetime and successful Initialize calls
    mRefCount,     \* WsaGuard::mRefCount (static)
    reg,           \* per thread: the value of mRefCount it read and has yet to write back
    mSocket,       \* Socket::mSocket of the send's Socket object
    openSockets,   \* operating system: the socket handles currently open
    calls,         \* operating system: the system calls made so far, in order
    fnArg,         \* direct call of one function: its argument
    fnRet          \* direct call of one function: what it returned

vars == <<pc, debugBuild, iniFile, iniMac, iniIp, iniPort, mMacAddress,
          mBroadcastIp, mPort, errorCode, wolErrorCode, macBytes, packet,
          destAddr, guards, mRefCount, reg, mSocket, openSockets, calls, fnArg,
          fnRet>>

-----------------------------------------------------------------------------
(* Characters *)

NUL == "NUL"

Ord(ch) ==
    CASE ch = "NUL" -> 0
      [] ch = "\t" -> 9
      [] ch = "\f" -> 12
      [] ch = " " -> 32
      [] ch = "+" -> 43
      [] ch = "-" -> 45
      [] ch = "." -> 46
      [] ch = "/" -> 47
      [] ch = "0" -> 48
      [] ch = "1" -> 49
      [] ch = "2" -> 50
      [] ch = "3" -> 51
      [] ch = "4" -> 52
      [] ch = "5" -> 53
      [] ch = "6" -> 54
      [] ch = "7" -> 55
      [] ch = "8" -> 56
      [] ch = "9" -> 57
      [] ch = ":" -> 58
      [] ch = "@" -> 64
      [] ch = "A" -> 65
      [] ch = "B" -> 66
      [] ch = "C" -> 67
      [] ch = "D" -> 68
      [] ch = "E" -> 69
      [] ch = "F" -> 70
      [] ch = "G" -> 71
      [] ch = "X" -> 88
      [] ch = "_" -> 95
      [] ch = "a" -> 97
      [] ch = "b" -> 98
      [] ch = "c" -> 99
      [] ch = "d" -> 100
      [] ch = "e" -> 101
      [] ch = "f" -> 102
      [] ch = "g" -> 103
      [] ch = "x" -> 120

InRange(c, lo, hi) == c >= lo /\ c <= hi

\* iswdigit / iswspace on the characters of the model
iswdigit(ch) == InRange(Ord(ch), 48, 57)
iswspace(ch) == InRange(Ord(ch), 9, 13) \/ ch = " "

\* the value of a character code as a digit ('0'-'9', 'a'-'z', 'A'-'Z'),
\* -1 when it is none
DigitOfCode(c) ==
    IF InRange(c, 48, 57) THEN c - 48
    ELSE IF InRange(c, 97, 122) THEN c - 97 + 10
    ELSE IF InRange(c, 65, 90) THEN c - 65 + 10
    ELSE -1

DigitInBase(v, base) == IF v < base THEN v ELSE -1

\* the value of a character as a digit in the given base, -1 when it is none
DigitValue(ch, base) == DigitInBase(DigitOfCode(Ord(ch)), base)

\* F applied to the value of x (x is evaluated once, before F uses it)
WithValue(F(_), x) == CHOOSE r \in {F(v) : v \in {x}} : TRUE

-----------------------------------------------------------------------------
(* WolErrorCode, lines 70-98 *)

Success == "Success"
FailedToGetExecutionPath == "FailedToGetExecutionPath"
InvalidExecutionPath == "InvalidExecutionPath"
ConfigFileNotFound == "ConfigFileNotFound"
FailedToReadMacAddress == "FailedToReadMacAddress"
InvalidMacAddress == "InvalidMacAddress"
FailedToReadBroadcastIp == "FailedToReadBroadcastIp"
InvalidBroadcastIp == "InvalidBroadcastIp"
FailedToReadPort == "FailedToReadPort"
InvalidPort == "InvalidPort"
WinsockInitializationFailed == "WinsockInitializationFailed"
SocketCreationFailed == "SocketCreationFailed"
BroadcastSetupFailed == "BroadcastSetupFailed"
PacketSendFailed == "PacketSendFailed"
UnexpectedException == "UnexpectedException"

-----------------------------------------------------------------------------
(* WolConfig::IsValidMacAddress, lines 503-552 *)

MAC_ADDRESS_LENGTH == 18

MAC_ADDRESS_SEPARATOR_INDICES == {2, 5, 8, 11, 14}

\* lines 540-542
IsHexCode(c) == InRange(c, 48, 57) \/ InRange(c, 65, 70) \/ InRange(c, 97, 102)
IsHexChar(ch) == IsHexCode(Ord(ch))

\* the for loop of lines 515-549, from index i on
RECURSIVE MacCharLoop(_, _)
MacCharLoop(macAddress, i) ==
    IF i < Len(macAddress)
    THEN LET ch == macAddress[i + 1]
         IN  IF i \in MAC_ADDRESS_SEPARATOR_INDICES
             THEN IF ch # "-"
                  THEN InvalidMacAddress
                  ELSE MacCharLoop(macAddress, i + 1)
             ELSE IF ~IsHexChar(ch)
                  THEN InvalidMacAddress
                  ELSE MacCharLoop(macAddress, i + 1)
    ELSE Success

IsValidMacAddress(macAddress) ==
    IF Len(macAddress) = 0 \/ Len(macAddress) > MAC_ADDRESS_LENGTH
    THEN InvalidMacAddress
    ELSE MacCharLoop(macAddress, 0)

-----------------------------------------------------------------------------
(* WakeOnLanSender::ParseMacAddress, lines 943-968 *)

MacSize == 6

\* skipping white space from position p (1-based) on
RECURSIVE SkipSpace(_, _)
SkipSpace(s, p) ==
    IF p <= Len(s) /\ iswspace(s[p]) THEN SkipSpace(s, p + 1) ELSE p

\* the hexadecimal digits from position p on: [value, next, digits]
RECURSIVE ScanHexDigits(_, _, _, _)
ScanHexDigits(s, p, value, digits) ==
    IF p <= Len(s) /\ DigitValue(s[p], 16) >= 0
    THEN ScanHexDigits(s, p + 1, value * 16 + DigitValue(s[p], 16), digits + 1)
    ELSE [value |-> value, next |-> p, digits |-> digits]

\* one %x conversion of swscanf_s at position p: white space, an optional
\* sign, an optional 0x prefix, then hexadecimal digits.  The strings that
\* reach it hold at most three digits in a field, so the unsigned int never
\* overflows; a '-' sign negates modulo 2^32, which no modelled input has.
ScanHexField(s, p) ==
    LET q  == SkipSpace(s, p)
        r  == IF q <= Len(s) /\ s[q] \in {"+", "-"} THEN q + 1 ELSE q
        t  == IF r + 1 <= Len(s) /\ s[r] = "0" /\ s[r + 1] \in {"x", "X"}
                 /\ r + 2 <= Len(s) /\ DigitValue(s[r + 2], 16) >= 0
              THEN r + 2 ELSE r
        sc == ScanHexDigits(s, t, 0, 0)
    IN  [ok |-> sc.digits > 0, value |-> sc.value, next |-> sc.next]

\* swscanf_s(str, L"%x-%x-%x-%x-%x-%x", ...) from field k (0-based) on:
\* the values assigned so far and their number
RECURSIVE ScanMacFields(_, _, _, _)
ScanMacFields(s, p, k, tempValues) ==
    LET rest(f) ==
            IF ~f.ok
            THEN [tempValues |-> tempValues, scanResult |-> k]
            ELSE LET tv == [tempValues EXCEPT ![k] = f.value]
                 IN  IF k = MacSize - 1
                     THEN [tempValues |-> tv, scanResult |-> k + 1]
                     ELSE IF f.next <= Len(s) /\ s[f.next] = "-"
                          THEN WithValue(LAMBDA v : ScanMacFields(s, f.next + 1, k + 1, v), tv)
                          ELSE [tempValues |-> tv, scanResult |-> k + 1]
    IN  WithValue(rest, ScanHexField(s, p))

\* static_cast<std::byte>(unsigned int)
ToByte(v) == v % 256

\* ParseMacAddress storing the fields in the reverse order
ParseMacAddressReversed(macAddressString) ==
    LET sc == ScanMacFields(macAddressString, 1, 0, [i \in 0 .. MacSize - 1 |-> 0])
    IN  [scanResult |-> sc.scanResult,
         macBytes   |-> [i \in 0 .. MacSize - 1 |->
                            ToByte(sc.tempValues[MacSize - 1 - i])]]

\* [scanResult, macBytes]: tempValues starts zeroed (line 950) and every
\* element is narrowed to a byte (lines 964-967)
ParseMacAddress(macAddressString) ==
    LET sc == ScanMacFields(macAddressString, 1, 0, [i \in 0 .. MacSize - 1 |-> 0])
    IN  [scanResult |-> sc.scanResult,
         macBytes   |-> [i \in 0 .. MacSize - 1 |-> ToByte(sc.tempValues[i])]]

-----------------------------------------------------------------------------
(* WakeOnLanSender::CreateMagicPacket, lines 970-992 *)

PacketSize == 102
magicHeader == 255
headerSize == 6
macRepeatCount == 16

\* lines 978-981: packet[i] = magicHeader for i = 0 .. headerSize - 1
HeaderLoop(pkt) ==
    [j \in DOMAIN pkt |-> IF j \in 0 .. headerSize - 1 THEN magicHeader ELSE pkt[j]]

\* lines 987-990: packet[offset + i] = macBytes[i] for i = 0 .. 5
MacCopyLoop(pkt, bytes, offset) ==
    [j \in DOMAIN pkt |->
        IF j \in offset .. offset + MacSize - 1 THEN bytes[j - offset] ELSE pkt[j]]

\* lines 984-991, from the given repeat on
RECURSIVE RepeatLoop(_, _, _)
RepeatLoop(pkt, bytes, repeat) ==
    IF repeat < macRepeatCount
    THEN LET offset == headerSize + (repeat * MacSize)
         IN  WithValue(LAMBDA copied : RepeatLoop(copied, bytes, repeat + 1),
                       MacCopyLoop(pkt, bytes, offset))
    ELSE pkt

\* CreateMagicPacket with the repeat loop starting one block late
CreateMagicPacketFromSecond(bytes, pkt) ==
    WithValue(LAMBDA header : RepeatLoop(header, bytes, 1), HeaderLoop(pkt))

\* the packet buffer after the call, given the buffer before it
CreateMagicPacket(bytes, pkt) ==
    WithValue(LAMBDA header : RepeatLoop(header, bytes, 0), HeaderLoop(pkt))

\* MagicPacket packet{} and MacAddress macBytes{}: value-initialised arrays
ZeroPacket == [j \in 0 .. PacketSize - 1 |-> 0]
ZeroMac == [i \in 0 .. MacSize - 1 |-> 0]

-----------------------------------------------------------------------------
(* WolConfig::IsValidateIpOctet, lines 614-677 *)

MaxOctetLength == 3
MaxOctetValue == 255

\* the decimal digits from position p on: [value, next]
RECURSIVE ScanDecDigits(_, _, _)
ScanDecDigits(s, p, value) ==
    IF p <= Len(s) /\ DigitValue(s[p], 10) >= 0
    THEN ScanDecDigits(s, p + 1, value * 10 + DigitValue(s[p], 10))
    ELSE [value |-> value, next |-> p]

\* ::wcstol(str, &endPtr, 10) on a string of at most three characters (so a
\* long never overflows): white space, an optional sign, decimal digits.
\* next is the position endPtr points at; with no digits it is the start.
wcstol(s) ==
    LET q  == SkipSpace(s, 1)
        r  == IF q <= Len(s) /\ s[q] \in {"+", "-"} THEN q + 1 ELSE q
        sc == ScanDecDigits(s, r, 0)
    IN  IF sc.next = r
        THEN [value |-> 0, next |-> 1]
        ELSE [value |-> IF r > q /\ s[q] = "-" THEN 0 - sc.value ELSE sc.value,
              next  |-> sc.next]

\* endPtr points into the temporary std::wstring{octet} of line 645, which is
\* destroyed at the end of that statement; line 656 reads *endPtr after that.
\* The read is of a dead object: staleCh is the character it yields.  The
\* other operand, endPtr == octet.data(), compares pointers into two different
\* buffers and is false.
IsValidateIpOctet(octet, staleCh) ==
    IF Len(octet) = 0 \/ Len(octet) > MaxOctetLength
    THEN InvalidBroadcastIp
    ELSE IF \E k \in 1 .. Len(octet) : ~iswdigit(octet[k])
    THEN InvalidBroadcastIp
    ELSE IF Len(octet) > 1 /\ octet[1] = "0"
    THEN InvalidBroadcastIp
    ELSE LET value == wcstol(octet).value
         IN  IF staleCh # NUL
             THEN InvalidBroadcastIp
             ELSE IF value < 0 \/ value > MaxOctetValue
             THEN InvalidBroadcastIp
             ELSE Success

-----------------------------------------------------------------------------
(* WolConfig::IsValidBroadcastIpAddress, lines 554-612 *)

RequiredDots == 3

\* the for loop of lines 560-601 from index i on, then lines 604-611;
\* stale[k] is the character the k-th octet check reads through endPtr
RECURSIVE IpLoop(_, _, _, _, _)
IpLoop(ip, stale, i, start, dotCount) ==
    IF i <= Len(ip)
    THEN IF i = Len(ip) \/ ip[i + 1] = "."
         THEN LET octet  == SubSeq(ip, start + 1, i)
                  result == IsValidateIpOctet(octet, stale[dotCount + 1])
                  dots   == IF i < Len(ip) THEN dotCount + 1 ELSE dotCount
              IN  IF result # Success
                  THEN result
                  ELSE IF dots > RequiredDots
                  THEN InvalidBroadcastIp
                  ELSE IpLoop(ip, stale, i + 1, i + 1, dots)
         ELSE IpLoop(ip, stale, i + 1, start, dotCount)
    ELSE IF dotCount # RequiredDots
         THEN InvalidBroadcastIp
         ELSE Success

IsValidBroadcastIpAddress(broadcastIpAddress, stale) ==
    IpLoop(broadcastIpAddress, stale, 0, 0, 0)

\* what a read of the destroyed temporary can yield: the terminator that was
\* there, or whatever has replaced it
StaleChars == {NUL, "x"}
StaleReads == [1 .. RequiredDots + 1 -> StaleChars]

-----------------------------------------------------------------------------
(* WolConfig::IsConfigurationValid, lines 482-501 *)

IsConfigurationValid(mac, ip, stale) ==
    IF IsValidMacAddress(mac) # Success
    THEN IsValidMacAddress(mac)
    ELSE IF IsValidBroadcastIpAddress(ip, stale) # Success
    THEN IsValidBroadcastIpAddress(ip, stale)
    ELSE Success

-----------------------------------------------------------------------------
(* The port of WolConfig::LoadFromIni, lines 422-453 *)

\* An unsigned long (32 bits on the target) is kept as [hi, lo], its value
\* being hi * 65536 + lo, so that no number of the model exceeds 2^31.
UINT16_MAX == 65535
Half == UINT16_MAX + 1

UlZero == [hi |-> 0, lo |-> 0]

\* the decimal digits from position p on, accumulated into an unsigned long:
\* [hi, lo, overflow, next]
RECURSIVE ScanUlDigits(_, _, _)
ScanUlDigits(s, p, acc) ==
    IF p <= Len(s) /\ DigitValue(s[p], 10) >= 0
    THEN LET lo10 == acc.lo * 10 + DigitValue(s[p], 10)
             hi10 == acc.hi * 10 + (lo10 \div Half)
         IN  WithValue(LAMBDA a : ScanUlDigits(s, p + 1, a),
                       [hi |-> hi10 % Half, lo |-> lo10 % Half,
                        overflow |-> acc.overflow \/ hi10 >= Half])
    ELSE [hi |-> acc.hi, lo |-> acc.lo, overflow |-> acc.overflow, next |-> p]

\* 2^32 - v, the unsigned negation
UlNegate(v) ==
    IF v.hi = 0 /\ v.lo = 0 THEN v
    ELSE [hi |-> (Half - 1 - v.hi + (IF v.lo = 0 THEN 1 ELSE 0)) % Half,
          lo |-> (Half - v.lo) % Half]

\* wcstoul(str, &endPtr, 10): white space, an optional sign, decimal digits.
\* Out of range gives ULONG_MAX and errno = ERANGE; a '-' sign negates the
\* value as an unsigned long; with no digits endPtr is the start of str.
wcstoul(s) ==
    LET q  == SkipSpace(s, 1)
        r  == IF q <= Len(s) /\ s[q] \in {"+", "-"} THEN q + 1 ELSE q
        sc == ScanUlDigits(s, r, [hi |-> 0, lo |-> 0, overflow |-> FALSE])
        v  == [hi |-> sc.hi, lo |-> sc.lo]
    IN  IF sc.next = r
        THEN [value |-> UlZero, erange |-> FALSE, next |-> 1]
        ELSE IF sc.overflow
        THEN [value |-> [hi |-> Half - 1, lo |-> Half - 1], erange |-> TRUE,
              next |-> sc.next]
        ELSE [value |-> IF r > q /\ s[q] = "-" THEN UlNegate(v) ELSE v,
              erange |-> FALSE, next |-> sc.next]

\* the range check without its upper limit
PortOutOfRangeZeroOnly(port) == port.hi = 0 /\ port.lo = 0

\* lines 443-449: port == 0 || port > UINT16_MAX
PortOutOfRange(port) == (port.hi = 0 /\ port.lo = 0) \/ port.hi > 0

\* lines 422-453 on the buffer read for the Port key: the code returned
\* (Success when the port is stored) and the value stored in mPort
ParsePort(buffer) ==
    LET r == wcstoul(buffer)
    IN  IF Len(buffer) = 0
        THEN [code |-> InvalidPort, port |-> 0]
        ELSE IF r.erange
        THEN [code |-> InvalidPort, port |-> 0]
        ELSE IF r.next = 1 \/ r.next <= Len(buffer)
        THEN [code |-> InvalidPort, port |-> 0]
        ELSE IF PortOutOfRange(r.value)
        THEN [code |-> InvalidPort, port |-> 0]
        ELSE [code |-> Success, port |-> r.value.lo]

-----------------------------------------------------------------------------
(* WolConfig::LoadFromIni, lines 337-480 *)

DefaultBroadcastIp ==
    <<"2", "5", "5", ".", "2", "5", "5", ".", "2", "5", "5", ".", "2", "5", "5">>

\* a key of config.ini: absent, or present with a value
Absent == [present |-> FALSE, value |-> <<>>]
Key(v) == [present |-> TRUE, value |-> v]

\* ::GetPrivateProfileStringW: the string left in the buffer
GetPrivateProfileStringW(key, default) ==
    IF key.present THEN key.value ELSE default

\* lines 456-477: the result of IsConfigurationValid on the configuration
\* read; a configuration that is not valid is reset (lines 460-462)
LoadValidated(cfg3, valid) ==
    IF valid # Success
    THEN [code |-> valid,
          cfg  |-> [mMacAddress |-> <<>>, mBroadcastIp |-> <<>>, mPort |-> 0]]
    ELSE [code |-> Success, cfg |-> cfg3]

\* lines 422-456: the port is stored when its conversion succeeded
LoadPort(cfg2, pp, stale) ==
    IF pp.code # Success
    THEN [code |-> pp.code, cfg |-> cfg2]
    ELSE LoadValidated([cfg2 EXCEPT !.mPort = pp.port],
                       IsConfigurationValid(cfg2.mMacAddress, cfg2.mBroadcastIp,
                                            stale))

\* The configuration after the call and the code returned, given the
\* configuration before it.  A field is assigned as soon as its key is read.
LoadFromIni(cfg, file, macKey, ipKey, portKey, stale) ==
    LET macBuf  == GetPrivateProfileStringW(macKey, <<>>)
        ipBuf   == GetPrivateProfileStringW(ipKey, DefaultBroadcastIp)
        portBuf == GetPrivateProfileStringW(portKey, <<>>)
        cfg1    == [cfg EXCEPT !.mMacAddress = macBuf]
        cfg2    == [cfg1 EXCEPT !.mBroadcastIp = ipBuf]
    IN  IF file # Success
        THEN [code |-> file, cfg |-> cfg]
        ELSE IF Len(macBuf) = 0
        THEN [code |-> FailedToReadMacAddress, cfg |-> cfg]
        ELSE IF Len(ipBuf) = 0
        THEN [code |-> FailedToReadBroadcastIp, cfg |-> cfg1]
        ELSE IF Len(portBuf) = 0
        THEN [code |-> FailedToReadPort, cfg |-> cfg2]
        ELSE LoadPort(cfg2, ParsePort(portBuf), stale)

\* WolConfig() = default, lines 145-149 and 277-292
EmptyConfig == [mMacAddress |-> <<>>, mBroadcastIp |-> <<>>, mPort |-> 0]

-----------------------------------------------------------------------------
(* class Socket, lines 722-750, and the handles of the operating system *)

INVALID_SOCKET == -1

NumHandles == 2
Handles == 1 .. NumHandles

\* one system call in the log
Call(op, h, ok) == [op |-> op, h |-> h, ok |-> ok]

\* Close that forgets the handle without closing it
SocketCloseForget(sock, open, log) ==
    [mSocket |-> INVALID_SOCKET, openSockets |-> open, calls |-> log]

\* Socket::Close: [mSocket, openSockets, calls] after it.  closesocket on a
\* handle that is not open fails (ok = FALSE in the log).
SocketClose(sock, open, log) ==
    IF sock = INVALID_SOCKET
    THEN [mSocket |-> sock, openSockets |-> open, calls |-> log]
    ELSE [mSocket     |-> INVALID_SOCKET,
          openSockets |-> open \ {sock},
          calls       |-> Append(log, Call("closesocket", sock, sock \in open))]

\* Socket::Set: Close(), then the new handle
SocketSet(sock, open, log, newSocket) ==
    [SocketClose(sock, open, log) EXCEPT !.mSocket = newSocket]

-----------------------------------------------------------------------------
(* class WsaGuard, lines 787-818 *)

\* WsaGuard::mRefCount is an unsigned 64-bit counter.  It is kept as its
\* residue modulo 2^64 nearest to 0: a value r < 0 stands for 2^64 + r, the
\* value the counter holds after wrapping below 0.  Increment, decrement and
\* the test against 0 are the same on residues.
NumGuards == 2
GuardIds == 1 .. NumGuards

NoGuard == [state |-> "none", okInits |-> 0]
NewGuard == [state |-> "alive", okInits |-> 0]

\* WsaGuard::Initialize with WSAStartup succeeding (ok) or failing:
\* [guard, mRefCount, calls, code]
WsaGuardInitialize(guard, refCount, log, ok) ==
    IF ~ok
    THEN [guard |-> guard, mRefCount |-> refCount,
          calls |-> Append(log, Call("WSAStartup", INVALID_SOCKET, FALSE)),
          code  |-> WinsockInitializationFailed]
    ELSE [guard |-> [guard EXCEPT !.okInits = @ + 1], mRefCount |-> refCount + 1,
          calls |-> Append(log, Call("WSAStartup", INVALID_SOCKET, TRUE)),
          code  |-> Success]

\* WsaGuard::~WsaGuard: [guard, mRefCount, calls]
WsaGuardDtor(guard, refCount, log) ==
    [guard     |-> [guard EXCEPT !.state = "destroyed"],
     mRefCount |-> refCount - 1,
     calls     |-> IF refCount - 1 = 0
                   THEN Append(log, Call("WSACleanup", INVALID_SOCKET, TRUE))
                   ELSE log]

-----------------------------------------------------------------------------
(* WakeOnLanSender::SetupBroadcastAddress, lines 1015-1055 *)

\* the segments of s between the dots
RECURSIVE SplitOnDot(_, _, _)
SplitOnDot(s, p, cur) ==
    IF p > Len(s) THEN <<cur>>
    ELSE IF s[p] = "." THEN <<cur>> \o SplitOnDot(s, p + 1, <<>>)
    ELSE SplitOnDot(s, p + 1, Append(cur, s[p]))

\* inet_pton(AF_INET, ...): four decimal fields of one to three digits, each
\* at most 255, no leading zero; the address is its four bytes in order
inet_pton(ipStr) ==
    LET parts == SplitOnDot(ipStr, 1, <<>>)
        good(part) == /\ Len(part) \in 1 .. 3
                      /\ \A k \in 1 .. Len(part) : DigitValue(part[k], 10) >= 0
                      /\ (Len(part) > 1 => part[1] # "0")
                      /\ ScanDecDigits(part, 1, 0).value <= 255
    IN  IF Len(parts) = 4 /\ \A k \in 1 .. 4 : good(parts[k])
        THEN [ok |-> TRUE,
              addr |-> [k \in 1 .. 4 |-> ScanDecDigits(parts[k], 1, 0).value]]
        ELSE [ok |-> FALSE, addr |-> <<0, 0, 0, 0>>]

\* the port left in host (little-endian) byte order
HostOrder(port) == <<port % 256, port \div 256>>

\* htons: the two bytes of the port, most significant first
htons(port) == <<port \div 256, port % 256>>

ZeroAddr == [sin_port |-> <<0, 0>>, sin_addr |-> <<0, 0, 0, 0>>]

\* lines 1024-1054, with WideCharToMultiByte succeeding (convOk) or failing:
\* the code returned and destAddr after the call
SetupBroadcastAddress(broadcastAddress, port, convOk) ==
    LET addr0 == [ZeroAddr EXCEPT !.sin_port = htons(port)]
        ipStr == broadcastAddress
        pton  == inet_pton(ipStr)
    IN  IF ~convOk
        THEN [code |-> BroadcastSetupFailed, destAddr |-> addr0]
        ELSE IF ~pton.ok
        THEN [code |-> BroadcastSetupFailed, destAddr |-> addr0]
        ELSE [code |-> Success, destAddr |-> [addr0 EXCEPT !.sin_addr = pton.addr]]

\* lines 1029-1046: the conversion calls SetupBroadcastAddress makes.  The
\* two WideCharToMultiByte calls (size, then conversion) are one entry.
SetupCalls(broadcastAddress, convOk) ==
    IF ~convOk
    THEN <<Call("WideCharToMultiByte", INVALID_SOCKET, FALSE)>>
    ELSE <<Call("WideCharToMultiByte", INVALID_SOCKET, TRUE),
           Call("inet_pton", INVALID_SOCKET, inet_pton(broadcastAddress).ok)>>

\* line 1022: assert(port != 0 && port < UINT16_MAX)
SetupPortAssertion(port) == port # 0 /\ port < UINT16_MAX

-----------------------------------------------------------------------------
(* State after construction *)

iniVars == <<debugBuild, iniFile, iniMac, iniIp, iniPort>>
cfgVars == <<mMacAddress, mBroadcastIp, mPort>>
sendVars == <<wolErrorCode, macBytes, packet, destAddr>>
wsaVars == <<guards, mRefCount, reg>>
sockVars == <<mSocket, openSockets>>
fnVars == <<fnArg, fnRet>>

NoRet == [code |-> "none", scanResult |-> -1]

\* everything but pc and the inputs of a run
Fresh ==
    /\ mMacAddress = EmptyConfig.mMacAddress
    /\ mBroadcastIp = EmptyConfig.mBroadcastIp
    /\ mPort = EmptyConfig.mPort
    /\ errorCode = "none"
    /\ wolErrorCode = "none"
    /\ macBytes = ZeroMac
    /\ packet = ZeroPacket
    /\ destAddr = ZeroAddr
    /\ guards = [g \in GuardIds |-> NoGuard]
    /\ mRefCount = 0
    /\ reg = [g \in GuardIds |-> 0]
    /\ mSocket = INVALID_SOCKET
    /\ openSockets = {}
    /\ calls = <<>>
    /\ fnRet = NoRet

NoIni ==
    /\ iniFile = Success
    /\ iniMac = Absent
    /\ iniIp = Absent
    /\ iniPort = Absent

-----------------------------------------------------------------------------
(* main(), lines 1058-1111 *)

\* lines 1063-1064: WolConfig config; errorCode = config.LoadFromIni()
MainLoadFromIni ==
    /\ pc = "main"
    /\ \E stale \in StaleReads :
          \E r \in {LoadFromIni([mMacAddress |-> mMacAddress,
                                 mBroadcastIp |-> mBroadcastIp, mPort |-> mPort],
                                iniFile, iniMac, iniIp, iniPort, stale)} :
              /\ errorCode' = r.code
              /\ mMacAddress' = r.cfg.mMacAddress
              /\ mBroadcastIp' = r.cfg.mBroadcastIp
              /\ mPort' = r.cfg.mPort
    /\ pc' = "loaded"
    /\ UNCHANGED <<iniVars, sendVars, wsaVars, sockVars, calls, fnVars>>

\* line 1065: main() goes on to the send only when this holds
ConfigLoaded == errorCode = Success

\* lines 1065-1078: return static_cast<int>(errorCode)
MainReturnOnError ==
    /\ pc = "loaded"
    /\ ~ConfigLoaded
    /\ pc' = "exit"
    /\ UNCHANGED <<iniVars, cfgVars, errorCode, sendVars, wsaVars, sockVars,
                   calls, fnVars>>

-----------------------------------------------------------------------------
(* WakeOnLanSender::SendMagicPacket, lines 881-941 *)

TheGuard == 1

SOCKET_ERROR == -1
SendResults == {SOCKET_ERROR, PacketSize - 1, PacketSize}

\* lines 887-899: the assertions, ParseMacAddress, CreateMagicPacket and the
\* construction of wsaGuard.  A failed assertion aborts the process.
SendEnter ==
    /\ pc = "loaded"
    /\ ConfigLoaded
    /\ \E parsed \in {ParseMacAddress(mMacAddress)} :
           IF debugBuild /\ (\/ Len(mMacAddress) = 0
                             \/ Len(mBroadcastIp) = 0
                             \/ mPort = 0
                             \/ parsed.scanResult # MacSize)
           THEN /\ pc' = "aborted"
                /\ UNCHANGED <<macBytes, packet, guards>>
           ELSE /\ macBytes' = parsed.macBytes
                /\ packet' = CreateMagicPacket(parsed.macBytes, ZeroPacket)
                /\ guards' = [guards EXCEPT ![TheGuard] = NewGuard]
                /\ pc' = "wsa_init"
    /\ UNCHANGED <<reg, iniVars, cfgVars, errorCode, wolErrorCode, destAddr,
                   mRefCount, sockVars, calls, fnVars>>

\* lines 900-907: wsaGuard.Initialize(), then Socket socket
SendWsaInitialize ==
    /\ pc = "wsa_init"
    /\ \E ok \in BOOLEAN :
          LET r == WsaGuardInitialize(guards[TheGuard], mRefCount, calls, ok)
          IN  /\ guards' = [guards EXCEPT ![TheGuard] = r.guard]
              /\ mRefCount' = r.mRefCount
              /\ calls' = r.calls
              /\ wolErrorCode' = r.code
              /\ pc' = IF r.code # Success THEN "return_guard" ELSE "init_socket"
              /\ mSocket' = IF r.code # Success THEN mSocket ELSE INVALID_SOCKET
    /\ UNCHANGED <<reg, iniVars, cfgVars, errorCode, macBytes, packet, destAddr,
                   openSockets, fnVars>>

\* line 908 and InitializeSocket, lines 994-1013: ::socket, WSAIoctl, Set
SendInitializeSocket ==
    /\ pc = "init_socket"
    /\ \E rawSocket \in (Handles \ openSockets) \cup {INVALID_SOCKET},
          ioctlOk \in BOOLEAN :
          IF rawSocket = INVALID_SOCKET
          THEN /\ calls' = Append(calls, Call("socket", rawSocket, FALSE))
               /\ wolErrorCode' = SocketCreationFailed
               /\ pc' = "return"
               /\ UNCHANGED sockVars
          ELSE LET log == calls \o <<Call("socket", rawSocket, TRUE),
                                     Call("WSAIoctl", rawSocket, ioctlOk)>>
                   r   == SocketSet(mSocket, openSockets \cup {rawSocket}, log,
                                    rawSocket)
               IN  /\ mSocket' = r.mSocket
                   /\ openSockets' = r.openSockets
                   /\ calls' = r.calls
                   /\ wolErrorCode' = Success
                   /\ pc' = "set_broadcast"
    /\ UNCHANGED <<iniVars, cfgVars, errorCode, macBytes, packet, destAddr,
                   wsaVars, fnVars>>

\* setsockopt whose failure is recorded but does not end the send
SendSetBroadcastGoingOn ==
    /\ pc = "set_broadcast"
    /\ \E ok \in BOOLEAN :
          /\ calls' = Append(calls, Call("setsockopt", mSocket, ok))
          /\ wolErrorCode' = IF ok THEN wolErrorCode ELSE BroadcastSetupFailed
          /\ pc' = "setup_address"
    /\ UNCHANGED <<iniVars, cfgVars, errorCode, macBytes, packet, destAddr,
                   wsaVars, sockVars, fnVars>>

\* lines 914-920: setsockopt(SO_BROADCAST)
SendSetBroadcast ==
    /\ pc = "set_broadcast"
    /\ \E ok \in BOOLEAN :
          /\ calls' = Append(calls, Call("setsockopt", mSocket, ok))
          /\ wolErrorCode' = IF ok THEN wolErrorCode ELSE BroadcastSetupFailed
          /\ pc' = IF ok THEN "setup_address" ELSE "return"
    /\ UNCHANGED <<iniVars, cfgVars, errorCode, macBytes, packet, destAddr,
                   wsaVars, sockVars, fnVars>>

\* lines 922-928 and SetupBroadcastAddress
SendSetupBroadcastAddress ==
    /\ pc = "setup_address"
    /\ IF debugBuild /\ (Len(mBroadcastIp) = 0 \/ ~SetupPortAssertion(mPort))
       THEN /\ pc' = "aborted"
            /\ UNCHANGED <<wolErrorCode, destAddr, calls>>
       ELSE \E convOk \in BOOLEAN :
               \E r \in {SetupBroadcastAddress(mBroadcastIp, mPort, convOk)} :
                   /\ wolErrorCode' = r.code
                   /\ destAddr' = r.destAddr
                   /\ calls' = calls \o SetupCalls(mBroadcastIp, convOk)
                   /\ pc' = IF r.code # Success THEN "return" ELSE "sendto"
    /\ UNCHANGED <<iniVars, cfgVars, errorCode, macBytes, packet, wsaVars,
                   sockVars, fnVars>>

\* lines 930-940: sendto
SendSendTo ==
    /\ pc = "sendto"
    /\ \E sendResult \in SendResults :
          /\ calls' = Append(calls,
                 [op |-> "sendto", h |-> mSocket, ok |-> sendResult # SOCKET_ERROR,
                  buf |-> packet, len |-> PacketSize, to |-> destAddr,
                  ret |-> sendResult])
          /\ wolErrorCode' = IF sendResult = SOCKET_ERROR
                             THEN PacketSendFailed ELSE Success
    /\ pc' = "return"
    /\ UNCHANGED <<iniVars, cfgVars, errorCode, macBytes, packet, destAddr,
                   wsaVars, sockVars, fnVars>>

\* the return of SendMagicPacket destroying the locals in the order of
\* their construction: wsaGuard, then socket
SendReturnGuardFirst ==
    /\ pc \in {"return_guard", "return"}
    /\ LET g == WsaGuardDtor(guards[TheGuard], mRefCount, calls)
           s == IF pc = "return"
                THEN SocketClose(mSocket, openSockets, g.calls)
                ELSE [mSocket |-> mSocket, openSockets |-> openSockets,
                      calls |-> g.calls]
       IN  /\ mSocket' = s.mSocket
           /\ openSockets' = s.openSockets
           /\ guards' = [guards EXCEPT ![TheGuard] = g.guard]
           /\ mRefCount' = g.mRefCount
           /\ calls' = s.calls
    /\ errorCode' = wolErrorCode
    /\ pc' = "exit"
    /\ UNCHANGED <<reg, iniVars, cfgVars, sendVars, fnVars>>

\* the return of SendMagicPacket: the locals are destroyed in reverse order
\* of construction (socket, when it was constructed, then wsaGuard), and
\* main() stores the code returned (line 1087)
SendReturn ==
    /\ pc \in {"return_guard", "return"}
    /\ LET s == IF pc = "return"
                THEN SocketClose(mSocket, openSockets, calls)
                ELSE [mSocket |-> mSocket, openSockets |-> openSockets,
                      calls |-> calls]
           g == WsaGuardDtor(guards[TheGuard], mRefCount, s.calls)
       IN  /\ mSocket' = s.mSocket
           /\ openSockets' = s.openSockets
           /\ guards' = [guards EXCEPT ![TheGuard] = g.guard]
           /\ mRefCount' = g.mRefCount
           /\ calls' = g.calls
    /\ errorCode' = wolErrorCode
    /\ pc' = "exit"
    /\ UNCHANGED <<reg, iniVars, cfgVars, sendVars, fnVars>>

Next ==
    \/ MainLoadFromIni
    \/ MainReturnOnError
    \/ SendEnter
    \/ SendWsaInitialize
    \/ SendInitializeSocket
    \/ SendSetBroadcast
    \/ SendSetupBroadcastAddress
    \/ SendSendTo
    \/ SendReturn

\* the configuration files of the runs that are checked
ExampleMac == <<"A", "0", "-", "3", "6", "-", "B", "C", "-", "B", "B", "-", "E", "B", "-", "C", "C">>
ExampleIp == <<"1", "9", "2", ".", "1", "6", "8", ".", "0", ".", "2", "5", "5">>

ProgFiles == {Success, FailedToGetExecutionPath, InvalidExecutionPath,
              UnexpectedException, ConfigFileNotFound}
ProgMacs == {Absent, Key(ExampleMac), Key(<<"A">>),
             Key(<<"0", "0", ":", "1", "1", ":", "2", "2", ":", "A", "A", ":", "B", "B", ":", "C", "C">>),
             Key(<<"0", "0", "-", "1", "1", "-", "2", "2", "-", "A", "A", "-", "B", "B", "-", "C", "C", "D">>)}
ProgIps == {Absent, Key(<<>>), Key(ExampleIp), Key(<<"1", "9", "2", ".", "1", "6", "8", ".", "0", ".", "2", "5", "6">>),
            Key(<<"1", "9", "2", ".", "1", "6", "8", ".", "0">>)}
ProgPorts == {Absent, Key(<<"9">>), Key(<<"0">>), Key(<<"6", "5", "5", "3", "5">>),
              Key(<<"6", "5", "5", "3", "6">>), Key(<<"+", "7">>), Key(<<"9", "a", "b", "c">>)}

Init ==
    /\ pc = "main"
    /\ debugBuild \in BOOLEAN
    /\ iniFile \in ProgFiles
    /\ iniMac \in ProgMacs
    /\ iniIp \in ProgIps
    /\ iniPort \in ProgPorts
    /\ fnArg = <<>>
    /\ Fresh

Spec == Init /\ [][Next]_vars

-----------------------------------------------------------------------------
(* Direct calls of the MAC functions: validation, then, as in the program, *)
(* parsing and packet construction of what validation accepted             *)

MaxExtra == 2
MaxShort == 2

StringsUpTo(alphabet, n) == UNION {[1 .. k -> alphabet] : k \in 0 .. n}

HexPairs == {<<"0", "0">>, <<"f", "F">>, <<"A", "9">>, <<"a", "9">>}
FormedMacs ==
    {a \o <<"-">> \o b \o <<"-">> \o c \o <<"-">> \o d \o <<"-">> \o e \o <<"-">> \o f :
        a \in HexPairs, b \in HexPairs, c \in HexPairs,
        d \in HexPairs, e \in HexPairs, f \in HexPairs}

BaseMacs == {ExampleMac, <<"0", "a", "-", "1", "B", "-", "2", "c", "-", "3", "D", "-", "4", "e", "-", "5", "F">>}
MacAlphabet == {"0", "9", "A", "F", "G", "a", "f", "g", "-", ":", "/", "@", "_", " "}

MacInputs ==
    FormedMacs
    \cup {[b EXCEPT ![i] = c] : b \in BaseMacs, i \in 1 .. 17, c \in MacAlphabet}
    \cup {SubSeq(b, 1, k) : b \in BaseMacs, k \in 0 .. 17}
    \cup {b \o t : b \in BaseMacs, t \in StringsUpTo(MacAlphabet, MaxExtra)}
    \cup StringsUpTo(MacAlphabet, MaxShort)

\* IsConfigurationValid's call, line 485
CallIsValidMacAddress ==
    /\ pc = "IsValidMacAddress"
    /\ \E code \in {IsValidMacAddress(fnArg)} :
           /\ fnRet' = [fnRet EXCEPT !.code = code]
           /\ pc' = IF code = Success THEN "ParseMacAddress" ELSE "returned"
    /\ UNCHANGED <<iniVars, cfgVars, errorCode, sendVars, wsaVars, sockVars,
                   calls, fnArg>>

\* SendMagicPacket's call, line 893, with the assertions of lines 948 and 961
CallParseMacAddress ==
    /\ pc = "ParseMacAddress"
    /\ \E parsed \in {ParseMacAddress(fnArg)} :
           /\ fnRet' = [fnRet EXCEPT !.scanResult = parsed.scanResult]
           /\ IF debugBuild /\ (Len(fnArg) = 0 \/ parsed.scanResult # MacSize)
              THEN pc' = "aborted" /\ UNCHANGED macBytes
              ELSE pc' = "CreateMagicPacket" /\ macBytes' = parsed.macBytes
    /\ UNCHANGED <<iniVars, cfgVars, errorCode, wolErrorCode, packet, destAddr,
                   wsaVars, sockVars, calls, fnArg>>

\* SendMagicPacket's call, line 897
CallCreateMagicPacket ==
    /\ pc = "CreateMagicPacket"
    /\ packet' = CreateMagicPacket(macBytes, packet)
    /\ pc' = "built"
    /\ UNCHANGED <<iniVars, cfgVars, errorCode, wolErrorCode, macBytes, destAddr,
                   wsaVars, sockVars, calls, fnVars>>

InitMac ==
    /\ pc = "IsValidMacAddress"
    /\ debugBuild \in BOOLEAN
    /\ NoIni
    /\ fnArg \in MacInputs
    /\ Fresh

NextMac == CallIsValidMacAddress \/ CallParseMacAddress \/ CallCreateMagicPacket

SpecMac == InitMac /\ [][NextMac]_vars

-----------------------------------------------------------------------------
(* Direct calls of CreateMagicPacket on any MAC bytes and any prior buffer *)

ByteSamples == {0, 1, 160, 255}
StalePacket == [j \in 0 .. PacketSize - 1 |-> 170]

InitPacket ==
    /\ pc = "CreateMagicPacket"
    /\ debugBuild \in BOOLEAN
    /\ NoIni
    /\ fnArg = <<>>
    /\ mMacAddress = EmptyConfig.mMacAddress
    /\ mBroadcastIp = EmptyConfig.mBroadcastIp
    /\ mPort = EmptyConfig.mPort
    /\ errorCode = "none"
    /\ wolErrorCode = "none"
    /\ macBytes \in [0 .. MacSize - 1 -> ByteSamples]
    /\ packet \in {ZeroPacket, StalePacket}
    /\ destAddr = ZeroAddr
    /\ guards = [g \in GuardIds |-> NoGuard]
    /\ mRefCount = 0
    /\ reg = [g \in GuardIds |-> 0]
    /\ mSocket = INVALID_SOCKET
    /\ openSockets = {}
    /\ calls = <<>>
    /\ fnRet = NoRet

NextPacket == CallCreateMagicPacket

SpecPacket == InitPacket /\ [][NextPacket]_vars

-----------------------------------------------------------------------------
(* Direct calls of IsValidBroadcastIpAddress *)

MaxOctets == 5

OctetTokens == {<<>>, <<"0">>, <<"7">>, <<"0", "1">>, <<"2", "5", "5">>,
                <<"2", "5", "6">>, <<"1", "a">>, <<"1", "0", "0", "0">>,
                <<"+", "1">>}

\* the tokens joined by dots
RECURSIVE JoinDots(_, _)
JoinDots(tokens, k) ==
    IF k > Len(tokens) THEN <<>>
    ELSE IF k = Len(tokens) THEN tokens[k]
    ELSE tokens[k] \o <<".">> \o JoinDots(tokens, k + 1)

IpInputs ==
    {<<>>} \cup UNION {{JoinDots(t, 1) : t \in [1 .. n -> OctetTokens]} : n \in 1 .. MaxOctets}

\* IsConfigurationValid's call, line 492
CallIsValidBroadcastIpAddress ==
    /\ pc = "IsValidBroadcastIpAddress"
    /\ \E stale \in StaleReads :
          fnRet' = [fnRet EXCEPT !.code = IsValidBroadcastIpAddress(fnArg, stale)]
    /\ pc' = "returned"
    /\ UNCHANGED <<iniVars, cfgVars, errorCode, sendVars, wsaVars, sockVars,
                   calls, fnArg>>

InitIp ==
    /\ pc = "IsValidBroadcastIpAddress"
    /\ debugBuild \in BOOLEAN
    /\ NoIni
    /\ fnArg \in IpInputs
    /\ Fresh

NextIp == CallIsValidBroadcastIpAddress

SpecIp == InitIp /\ [][NextIp]_vars

-----------------------------------------------------------------------------
(* LoadFromIni on any Port value, the other two keys being well formed *)

MaxPortLen == 3

PortAlphabet == {"0", "1", "9", "+", "-", "\f", "a"}
LongPorts == {
    <<"6", "5", "5", "3", "5">>,
    <<"6", "5", "5", "3", "6">>,
    <<"6", "5", "5", "3", "7">>,
    <<"6", "5", "5", "4", "5">>,
    <<"0", "0", "0", "0", "9">>,
    <<"0", "0", "0", "0", "0", "0", "0", "0", "0", "0", "0", "0", "9">>,
    <<"4", "2", "9", "4", "9", "6", "7", "2", "9", "5">>,
    <<"4", "2", "9", "4", "9", "6", "7", "2", "9", "6">>,
    <<"4", "2", "9", "4", "9", "6", "7", "3", "0", "5">>,
    <<"9", "9", "9", "9", "9", "9", "9", "9", "9", "9", "9">>,
    <<"-", "4", "2", "9", "4", "9", "6", "7", "2", "9", "5">>,
    <<"-", "4", "2", "9", "4", "9", "6", "7", "2", "8", "7">>,
    <<"+", "6", "5", "5", "3", "5">>,
    <<"6", "5", "5", "3", "5", "a">>}

PortInputs == StringsUpTo(PortAlphabet, MaxPortLen) \cup LongPorts

InitPort ==
    /\ pc = "main"
    /\ debugBuild \in BOOLEAN
    /\ iniFile = Success
    /\ iniMac = Key(ExampleMac)
    /\ iniIp = Key(ExampleIp)
    /\ iniPort \in {Key(v) : v \in PortInputs}
    /\ fnArg = <<>>
    /\ Fresh

NextPort == MainLoadFromIni

SpecPort == InitPort /\ [][NextPort]_vars

-----------------------------------------------------------------------------
(* WsaGuard objects created, initialised and destroyed in any sequential   *)
(* order                                                                   *)

MaxInitCalls == 3

StartupCalls == Cardinality({k \in 1 .. Len(calls) : calls[k].op = "WSAStartup"})

GuardCreate(g) ==
    /\ guards[g].state = "none"
    /\ guards' = [guards EXCEPT ![g] = NewGuard]
    /\ UNCHANGED <<reg, pc, iniVars, cfgVars, errorCode, sendVars, mRefCount,
                   sockVars, calls, fnVars>>

GuardInitialize(g) ==
    /\ guards[g].state = "alive"
    /\ StartupCalls < MaxInitCalls
    /\ \E ok \in BOOLEAN :
          LET r == WsaGuardInitialize(guards[g], mRefCount, calls, ok)
          IN  /\ guards' = [guards EXCEPT ![g] = r.guard]
              /\ mRefCount' = r.mRefCount
              /\ calls' = r.calls
    /\ UNCHANGED <<reg, pc, iniVars, cfgVars, errorCode, sendVars, sockVars, fnVars>>

GuardDestroy(g) ==
    /\ guards[g].state = "alive"
    /\ LET r == WsaGuardDtor(guards[g], mRefCount, calls)
       IN  /\ guards' = [guards EXCEPT ![g] = r.guard]
           /\ mRefCount' = r.mRefCount
           /\ calls' = r.calls
    /\ UNCHANGED <<reg, pc, iniVars, cfgVars, errorCode, sendVars, sockVars, fnVars>>

InitGuard ==
    /\ pc = "guards"
    /\ debugBuild \in BOOLEAN
    /\ NoIni
    /\ fnArg = <<>>
    /\ Fresh

NextGuard ==
    \E g \in GuardIds : GuardCreate(g) \/ GuardInitialize(g) \/ GuardDestroy(g)

SpecGuard == InitGuard /\ [][NextGuard]_vars

-----------------------------------------------------------------------------
(* The program in an environment where the releases can fail too:          *)
(* closesocket and WSACleanup each report success or failure, and a        *)
(* closesocket that failed has or has not released the handle.             *)

\* the return of SendMagicPacket: ~Socket -> Close (lines 743-750), whose
\* closesocket result is discarded, then ~WsaGuard (lines 795-803), whose
\* WSACleanup result is discarded; main() stores the code returned
SendReturnAnyRelease ==
    /\ pc \in {"return_guard", "return"}
    /\ \E closeOk \in BOOLEAN, released \in BOOLEAN, cleanupOk \in BOOLEAN :
          LET closing == pc = "return" /\ mSocket # INVALID_SOCKET
              log == IF closing
                     THEN Append(calls, Call("closesocket", mSocket, closeOk))
                     ELSE calls
          IN  /\ closeOk => released
              /\ mSocket' = IF pc = "return" THEN INVALID_SOCKET ELSE mSocket
              /\ openSockets' = IF closing /\ released
                                THEN openSockets \ {mSocket} ELSE openSockets
              /\ guards' = [guards EXCEPT ![TheGuard].state = "destroyed"]
              /\ mRefCount' = mRefCount - 1
              /\ calls' = IF mRefCount - 1 = 0
                          THEN Append(log, Call("WSACleanup", INVALID_SOCKET, cleanupOk))
                          ELSE log
    /\ errorCode' = wolErrorCode
    /\ pc' = "exit"
    /\ UNCHANGED <<reg, iniVars, cfgVars, sendVars, fnVars>>

NextAnyRelease ==
    \/ MainLoadFromIni
    \/ MainReturnOnError
    \/ SendEnter
    \/ SendWsaInitialize
    \/ SendInitializeSocket
    \/ SendSetBroadcast
    \/ SendSetupBroadcastAddress
    \/ SendSendTo
    \/ SendReturnAnyRelease

SpecAnyRelease == Init /\ [][NextAnyRelease]_vars

-----------------------------------------------------------------------------
(* One Socket object (lines 722-750) used directly: the caller obtains     *)
(* handles from ::socket, gives valid ones to Set in any order, and the    *)
(* object is destroyed.  Each handle names one socket: ::socket never      *)
(* returns a handle it returned before.  fnArg is the sequence of handles  *)
(* given to Set so far.                                                    *)

MaxSetCalls == 3

\* ::socket called by the owner of the object
SocketObjOpen(h) ==
    /\ pc = "socket_alive"
    /\ \A k \in 1 .. Len(calls) : ~(calls[k].op = "socket" /\ calls[k].h = h)
    /\ openSockets' = openSockets \cup {h}
    /\ calls' = Append(calls, Call("socket", h, TRUE))
    /\ UNCHANGED <<pc, iniVars, cfgVars, errorCode, sendVars, wsaVars, mSocket,
                   fnVars>>

\* Socket::Set(h), lines 735-741, on a handle that is valid when it is given
SocketObjSet(h) ==
    /\ pc = "socket_alive"
    /\ h \in openSockets
    /\ Len(fnArg) < MaxSetCalls
    /\ \E r \in {SocketSet(mSocket, openSockets, calls, h)} :
          /\ mSocket' = r.mSocket
          /\ openSockets' = r.openSockets
          /\ calls' = r.calls
    /\ fnArg' = Append(fnArg, h)
    /\ UNCHANGED <<pc, iniVars, cfgVars, errorCode, sendVars, wsaVars, fnRet>>

\* Socket::~Socket, lines 727-732
SocketObjDestroy ==
    /\ pc = "socket_alive"
    /\ \E r \in {SocketClose(mSocket, openSockets, calls)} :
          /\ mSocket' = r.mSocket
          /\ openSockets' = r.openSockets
          /\ calls' = r.calls
    /\ pc' = "socket_destroyed"
    /\ UNCHANGED <<iniVars, cfgVars, errorCode, sendVars, wsaVars, fnVars>>

InitSocket ==
    /\ pc = "socket_alive"
    /\ debugBuild \in BOOLEAN
    /\ NoIni
    /\ fnArg = <<>>
    /\ Fresh

NextSocket ==
    \/ \E h \in Handles : SocketObjOpen(h) \/ SocketObjSet(h)
    \/ SocketObjDestroy

SpecSocket == InitSocket /\ [][NextSocket]_vars

-----------------------------------------------------------------------------
(* WsaGuard objects used by concurrent threads.  Thread t constructs guard *)
(* t, calls Initialize and destroys the guard.  mRefCount is a plain       *)
(* static integer: mRefCount++ and --mRefCount are each a read of the      *)
(* counter followed by a write, and the threads' steps interleave.  Here   *)
(* pc[t] is the position of thread t.                                      *)

ThreadIds == GuardIds

\* line 899: WsaGuard wsaGuard
ThreadConstruct(t) ==
    /\ pc[t] = "construct"
    /\ guards' = [guards EXCEPT ![t] = NewGuard]
    /\ pc' = [pc EXCEPT ![t] = "WSAStartup"]
    /\ UNCHANGED <<iniVars, cfgVars, errorCode, sendVars, mRefCount, reg,
                   sockVars, calls, fnVars>>

\* lines 808-813: WSAStartup; Initialize returns when it fails
ThreadStartup(t) ==
    /\ pc[t] = "WSAStartup"
    /\ \E ok \in BOOLEAN :
          /\ calls' = Append(calls, Call("WSAStartup", INVALID_SOCKET, ok))
          /\ pc' = [pc EXCEPT ![t] = IF ok THEN "inc_read" ELSE "returned"]
    /\ UNCHANGED <<iniVars, cfgVars, errorCode, sendVars, wsaVars, sockVars,
                   fnVars>>

\* line 815, mRefCount++: the read
ThreadIncRead(t) ==
    /\ pc[t] = "inc_read"
    /\ reg' = [reg EXCEPT ![t] = mRefCount]
    /\ pc' = [pc EXCEPT ![t] = "inc_write"]
    /\ UNCHANGED <<iniVars, cfgVars, errorCode, sendVars, guards, mRefCount,
                   sockVars, calls, fnVars>>

\* line 815, mRefCount++: the write; Initialize returns Success (line 817)
ThreadIncWrite(t) ==
    /\ pc[t] = "inc_write"
    /\ mRefCount' = reg[t] + 1
    /\ guards' = [guards EXCEPT ![t].okInits = @ + 1]
    /\ pc' = [pc EXCEPT ![t] = "returned"]
    /\ UNCHANGED <<iniVars, cfgVars, errorCode, sendVars, reg, sockVars, calls,
                   fnVars>>

\* line 797, --mRefCount: the read
ThreadDecRead(t) ==
    /\ pc[t] = "returned"
    /\ reg' = [reg EXCEPT ![t] = mRefCount]
    /\ pc' = [pc EXCEPT ![t] = "dec_write"]
    /\ UNCHANGED <<iniVars, cfgVars, errorCode, sendVars, guards, mRefCount,
                   sockVars, calls, fnVars>>

\* line 797, --mRefCount: the write
ThreadDecWrite(t) ==
    /\ pc[t] = "dec_write"
    /\ mRefCount' = reg[t] - 1
    /\ pc' = [pc EXCEPT ![t] = "test"]
    /\ UNCHANGED <<iniVars, cfgVars, errorCode, sendVars, guards, reg, sockVars,
                   calls, fnVars>>

\* lines 798-802: if (mRefCount == 0) WSACleanup(); the guard is gone
ThreadTest(t) ==
    /\ pc[t] = "test"
    /\ calls' = IF mRefCount = 0
                THEN Append(calls, Call("WSACleanup", INVALID_SOCKET, TRUE))
                ELSE calls
    /\ guards' = [guards EXCEPT ![t].state = "destroyed"]
    /\ pc' = [pc EXCEPT ![t] = "done"]
    /\ UNCHANGED <<iniVars, cfgVars, errorCode, sendVars, mRefCount, reg,
                   sockVars, fnVars>>

InitThreads ==
    /\ pc = [t \in ThreadIds |-> "construct"]
    /\ debugBuild = FALSE
    /\ NoIni
    /\ fnArg = <<>>
    /\ Fresh

NextThreads ==
    \E t \in ThreadIds :
        \/ ThreadConstruct(t)
        \/ ThreadStartup(t)
        \/ ThreadIncRead(t)
        \/ ThreadIncWrite(t)
        \/ ThreadDecRead(t)
        \/ ThreadDecWrite(t)
        \/ ThreadTest(t)

SpecThreads == InitThreads /\ [][NextThreads]_vars

-----------------------------------------------------------------------------
(* Notions of the specification, written independently of the code        *)

DecDigits == <<"0", "1", "2", "3", "4", "5", "6", "7", "8", "9">>
UpperHex == DecDigits \o <<"A", "B", "C", "D", "E", "F">>
LowerHex == DecDigits \o <<"a", "b", "c", "d", "e", "f">>

DecDigitChars == {DecDigits[k] : k \in 1 .. 10}
HexDigitChars == {UpperHex[k] : k \in 1 .. 16} \cup {LowerHex[k] : k \in 1 .. 16}

DecValue(ch) == (CHOOSE k \in 1 .. 10 : DecDigits[k] = ch) - 1
HexValue(ch) == (CHOOSE k \in 1 .. 16 : UpperHex[k] = ch \/ LowerHex[k] = ch) - 1

\* the number written by a string of decimal digits
RECURSIVE DecNumber(_)
DecNumber(s) ==
    IF s = <<>> THEN 0
    ELSE 10 * DecNumber(SubSeq(s, 1, Len(s) - 1)) + DecValue(s[Len(s)])

DigitsOnly(s) == \A k \in 1 .. Len(s) : s[k] \in DecDigitChars

\* XX-XX-XX-XX-XX-XX
CanonicalMac(s) ==
    /\ Len(s) = 17
    /\ \A i \in 1 .. 17 : IF i % 3 = 0 THEN s[i] = "-" ELSE s[i] \in HexDigitChars

\* the value of the i-th two-digit group (i in 0..5) of a canonical MAC
MacByteOf(s, i) == 16 * HexValue(s[3 * i + 1]) + HexValue(s[3 * i + 2])

\* 1 to 3 decimal digits, no leading zero, value 0..255
CanonicalOctet(o) ==
    /\ Len(o) \in 1 .. 3
    /\ DigitsOnly(o)
    /\ (Len(o) > 1 => o[1] # "0")
    /\ DecNumber(o) <= 255

DotsOf(s) == {k \in 1 .. Len(s) : s[k] = "."}

\* exactly 3 dots separating 4 canonical octets
CanonicalIp(s) ==
    /\ Cardinality(DotsOf(s)) = 3
    /\ LET a == CHOOSE x \in DotsOf(s) : \A y \in DotsOf(s) : x <= y
           c == CHOOSE x \in DotsOf(s) : \A y \in DotsOf(s) : x >= y
           b == CHOOSE x \in DotsOf(s) : x # a /\ x # c
       IN  /\ CanonicalOctet(SubSeq(s, 1, a - 1))
           /\ CanonicalOctet(SubSeq(s, a + 1, b - 1))
           /\ CanonicalOctet(SubSeq(s, b + 1, c - 1))
           /\ CanonicalOctet(SubSeq(s, c + 1, Len(s)))

\* a byte written in decimal without leading zeros
ToDecimal(n) ==
    IF n < 10 THEN <<DecDigits[n + 1]>>
    ELSE IF n < 100 THEN <<DecDigits[(n \div 10) + 1], DecDigits[(n % 10) + 1]>>
    ELSE <<DecDigits[(n \div 100) + 1], DecDigits[((n \div 10) % 10) + 1],
           DecDigits[(n % 10) + 1]>>

\* the dotted text of a 4-byte IPv4 address
FormatIp(addr) ==
    ToDecimal(addr[1]) \o <<".">> \o ToDecimal(addr[2]) \o <<".">>
        \o ToDecimal(addr[3]) \o <<".">> \o ToDecimal(addr[4])

RECURSIVE StripZeros(_)
StripZeros(s) == IF s # <<>> /\ s[1] = "0" THEN StripZeros(Tail(s)) ELSE s

\* the number written by a digits-only string lies in 1..65535 (a string of
\* more than 5 significant digits writes a larger number)
PortValueInRange(s) ==
    /\ Len(StripZeros(s)) \in 1 .. 5
    /\ DecNumber(StripZeros(s)) \in 1 .. 65535

PortNumber(s) == DecNumber(StripZeros(s))

\* the Wake-on-LAN payload for 6 MAC bytes
ExpectedPacket(bytes) ==
    [off \in 0 .. 101 |-> IF off <= 5 THEN 255 ELSE bytes[(off - 6) % 6]]

SendCalls == {k \in 1 .. Len(calls) : calls[k].op = "sendto"}

-----------------------------------------------------------------------------
(* C1 *)

\* C1: IsValidMacAddress returns Success for exactly the strings of the form
\* XX-XX-XX-XX-XX-XX (17 characters, six pairs of hex digits separated by
\* '-'); every other string (empty, a proper prefix, ':' separators, longer
\* than 17 characters) is rejected.
C1_AcceptsExactlyCanonical ==
    fnRet.code # "none" => (fnRet.code = Success <=> CanonicalMac(fnArg))

\* the one-character string "A" has been validated and accepted
C1_PrefixAccepted ==
    fnArg = <<"A">> /\ fnRet.code = Success

-----------------------------------------------------------------------------
(* C2 *)

\* C2: IsValidBroadcastIpAddress returns Success if and only if the string
\* has exactly 3 dots separating 4 octets, each of 1 to 3 decimal digits,
\* of value 0..255 and without a leading zero when longer than one digit.
C2_AcceptsExactlyCanonical ==
    fnRet.code # "none" => (fnRet.code = Success <=> CanonicalIp(fnArg))

\* a canonical address has been validated and rejected
C2_CanonicalRejected ==
    /\ fnArg = <<"7", ".", "0", ".", "2", "5", "5", ".", "7">>
    /\ fnRet.code = InvalidBroadcastIp

-----------------------------------------------------------------------------
(* C3 *)

\* C3: a raw port string is accepted only when it consists entirely of
\* decimal digits: a string with a sign, a white-space character or a
\* non-digit after a numeric prefix is rejected.
C3_AcceptsOnlyDigits ==
    pc = "loaded" /\ errorCode = Success => DigitsOnly(iniPort.value)

\* the port string "+9" has been loaded and stored as port 9
C3_SignAccepted ==
    /\ pc = "loaded"
    /\ iniPort.value = <<"+", "9">>
    /\ errorCode = Success
    /\ mPort = 9

-----------------------------------------------------------------------------
(* C4 *)

-----------------------------------------------------------------------------
(* C5 *)

\* C5: for every 6 MAC bytes and whatever the buffer held before,
\* CreateMagicPacket leaves a 102-byte buffer with 0xFF at offsets 0..5 and
\* the 6 MAC bytes in order at offsets 6+6k .. 11+6k for every k in 0..15,
\* so that the buffer is a function of the MAC bytes alone.
C5_PacketLayout ==
    pc = "built" =>
        /\ DOMAIN packet = 0 .. 101
        /\ \A off \in 0 .. 5 : packet[off] = 255
        /\ \A k \in 0 .. 15 : \A i \in 0 .. 5 : packet[6 + 6 * k + i] = macBytes[i]
        /\ packet = ExpectedPacket(macBytes)

\* a packet has been built over a buffer for the bytes A0 .. .. .. .. 01
C5_Built ==
    /\ pc = "built"
    /\ macBytes[0] = 160
    /\ macBytes[5] = 1
    /\ packet[6] = 160
    /\ packet[101] = 1

-----------------------------------------------------------------------------
(* C6 *)

\* C6: for every string XX-XX-XX-XX-XX-XX, ParseMacAddress converts all six
\* fields (no assertion fails) and byte i is the value of the i-th two-digit
\* group read left to right, in either case of the hex digits.
C6_ParsesCanonical ==
    fnRet.scanResult # -1 /\ CanonicalMac(fnArg) =>
        /\ pc # "aborted"
        /\ fnRet.scanResult = 6
        /\ DOMAIN macBytes = 0 .. 5
        /\ \A i \in 0 .. 5 : macBytes[i] = MacByteOf(fnArg, i)

\* 0a-1B-2c-3D-4e-5F has been parsed
C6_MixedCaseParsed ==
    /\ fnArg = <<"0", "a", "-", "1", "B", "-", "2", "c", "-", "3", "D", "-", "4", "e", "-", "5", "F">>
    /\ fnRet.scanResult = 6
    /\ macBytes[0] = 10
    /\ macBytes[5] = 95

-----------------------------------------------------------------------------
(* C7 *)

\* C7: when SendMagicPacket has returned Success, exactly one sendto was
\* made; its buffer is the 102-byte magic packet of the bytes parsed from
\* the configured MAC string (for a MAC XX-XX-XX-XX-XX-XX, the values of its
\* groups), its length is 102, and its destination is the configured
\* broadcast address and the configured port in network byte order.
C7_SuccessfulSend ==
    pc = "exit" /\ errorCode = Success =>
        /\ Cardinality(SendCalls) = 1
        /\ \A k \in SendCalls :
              /\ calls[k].len = 102
              /\ calls[k].buf = ExpectedPacket(macBytes)
              /\ CanonicalMac(mMacAddress) =>
                    \A i \in 0 .. 5 : macBytes[i] = MacByteOf(mMacAddress, i)
              /\ FormatIp(calls[k].to.sin_addr) = mBroadcastIp
              /\ calls[k].to.sin_port[1] * 256 + calls[k].to.sin_port[2] = mPort

\* the run with A0-36-BC-BB-EB-CC, 192.168.0.255 and port 9 has sent
C7_ExampleSent ==
    /\ pc = "exit"
    /\ errorCode = Success
    /\ mMacAddress = ExampleMac
    /\ mPort = 9
    /\ \E k \in SendCalls :
          /\ calls[k].to = [sin_port |-> <<0, 9>>, sin_addr |-> <<192, 168, 0, 255>>]
          /\ calls[k].buf[0] = 255
          /\ calls[k].buf[6] = 160
          /\ calls[k].buf[7] = 54
          /\ calls[k].buf[101] = 204

-----------------------------------------------------------------------------
(* C8 *)

\* the configuration file holds a missing or malformed MAC, a malformed
\* broadcast IP, or a missing or invalid port
BadConfiguration ==
    \/ ~iniMac.present \/ ~CanonicalMac(iniMac.value)
    \/ iniIp.present /\ ~CanonicalIp(iniIp.value)
    \/ ~iniPort.present
    \/ ~(iniPort.value # <<>> /\ DigitsOnly(iniPort.value)
         /\ PortValueInRange(iniPort.value))

ConfigurationErrors ==
    {FailedToReadMacAddress, InvalidMacAddress, FailedToReadBroadcastIp,
     InvalidBroadcastIp, FailedToReadPort, InvalidPort}

\* C8: when one of the three configuration values is missing or malformed,
\* the run makes no network call (no WSAStartup, no socket, no sendto) and
\* ends with a configuration error.
C8_BadConfigurationNoNetwork ==
    iniFile = Success /\ BadConfiguration =>
        /\ calls = <<>>
        /\ openSockets = {}
        /\ pc = "exit" => errorCode \in ConfigurationErrors

\* the run whose MAC is the string "A" has sent a datagram
C8_MalformedMacSent ==
    /\ iniMac = Key(<<"A">>)
    /\ SendCalls # {}

-----------------------------------------------------------------------------
(* C9 *)

\* C9: when the run is over, whatever SendMagicPacket returned, no socket is
\* open: every handle that ::socket returned was closed exactly once, and no
\* closesocket was ever made on a handle that was not open.
C9_SocketsClosed ==
    /\ \A k \in 1 .. Len(calls) : calls[k].op = "closesocket" => calls[k].ok
    /\ pc = "exit" =>
          /\ openSockets = {}
          /\ mSocket = INVALID_SOCKET
          /\ \A h \in Handles :
                Cardinality({k \in 1 .. Len(calls) :
                                calls[k].op = "closesocket" /\ calls[k].h = h})
                    = Cardinality({k \in 1 .. Len(calls) :
                                calls[k].op = "socket" /\ calls[k].h = h})

\* a send that failed at setsockopt has returned with its socket closed
C9_ClosedAfterFailure ==
    /\ pc = "exit"
    /\ errorCode = BroadcastSetupFailed
    /\ \E k \in 1 .. Len(calls) : calls[k].op = "setsockopt" /\ ~calls[k].ok
    /\ \E k \in 1 .. Len(calls) : calls[k].op = "closesocket" /\ calls[k].ok

-----------------------------------------------------------------------------
(* C10 *)

InitialisedAlive(gs) ==
    {g \in GuardIds : gs[g].state = "alive" /\ gs[g].okInits > 0}

\* C10: in every order of WsaGuard creations, Initialize calls and
\* destructions, a step that calls WSACleanup leaves no guard alive whose
\* Initialize succeeded.
C10_CleanupOnlyAfterLast ==
    [][(Len(calls') = Len(calls) + 1 /\ calls'[Len(calls')].op = "WSACleanup")
          => InitialisedAlive(guards') = {}]_vars

\* WSACleanup was the last call made and an initialised guard is alive
C10_ReleasedUnderLiveGuard ==
    /\ calls # <<>>
    /\ calls[Len(calls)].op = "WSACleanup"
    /\ InitialisedAlive(guards) # {}

-----------------------------------------------------------------------------
(* C11 *)

\* the increments and decrements of mRefCount that threads have completed
CompletedIncrements == Cardinality({t \in ThreadIds : guards[t].okInits > 0})
CompletedDecrements == Cardinality({t \in ThreadIds : pc[t] \in {"test", "done"}})

\* C11: when threads interleave Initialize and the destructor, no update of
\* mRefCount is lost (while no thread is between its read and its write the
\* counter is the number of increments made minus the number of decrements
\* made), and, every WSAStartup having succeeded, a step that calls
\* WSACleanup leaves no guard alive whose Initialize succeeded.
C11_ConcurrentUseSafe ==
    /\ []((\A t \in ThreadIds : pc[t] \notin {"inc_write", "dec_write"})
            => mRefCount = CompletedIncrements - CompletedDecrements)
    /\ [][(/\ Len(calls') = Len(calls) + 1
           /\ calls'[Len(calls')].op = "WSACleanup"
           /\ \A k \in 1 .. Len(calls') : calls'[k].ok)
              => InitialisedAlive(guards') = {}]_vars

\* every thread's Initialize has returned Success, no destructor has begun,
\* and the counter is below the number of guards
C11_IncrementLost ==
    /\ \A t \in ThreadIds : pc[t] = "returned" /\ guards[t].okInits > 0
    /\ mRefCount < Cardinality(ThreadIds)

-----------------------------------------------------------------------------
(* C12 *)

CallsOf(op) == {k \in 1 .. Len(calls) : calls[k].op = op}

\* the steps of a send whose failure ends it
SendSteps == {"WSAStartup", "socket", "setsockopt", "WideCharToMultiByte",
              "inet_pton", "sendto"}

\* the releases made when the send returns
ReleaseCalls == {"closesocket", "WSACleanup"}

\* C12: a send is a single attempt.  No operation is made twice; after a
\* failed step only the releases of the return follow; sendto is made only
\* after WSAStartup, socket, setsockopt and the address conversion all
\* succeeded; and a send that has returned after all of them succeeded has
\* made exactly one sendto.
C12_SingleAttempt ==
    /\ \A op \in SendSteps \cup ReleaseCalls \cup {"WSAIoctl"} :
          Cardinality(CallsOf(op)) <= 1
    /\ \A k \in 1 .. Len(calls) :
          calls[k].op \in SendSteps /\ ~calls[k].ok =>
              \A j \in k + 1 .. Len(calls) : calls[j].op \in ReleaseCalls
    /\ \A k \in CallsOf("sendto") :
          \A op \in SendSteps \ {"sendto"} :
              \E j \in 1 .. k - 1 : calls[j].op = op /\ calls[j].ok
    /\ (/\ pc = "exit"
        /\ \A op \in SendSteps \ {"sendto"} :
              \E j \in CallsOf(op) : calls[j].ok)
          => Cardinality(CallsOf("sendto")) = 1

\* a send whose socket creation failed has returned after three calls:
\* WSAStartup, socket, WSACleanup
C12_StoppedAtSocket ==
    /\ pc = "exit"
    /\ errorCode = SocketCreationFailed
    /\ Len(calls) = 3
    /\ calls[3].op = "WSACleanup"

-----------------------------------------------------------------------------
(* C13 *)

\* the kind of transport step an operation belongs to
StepOf(op) ==
    CASE op = "WSAStartup" -> "subsystem init"
      [] op = "socket" -> "socket creation"
      [] op = "setsockopt" -> "broadcast option"
      [] op \in {"WideCharToMultiByte", "inet_pton"} -> "address resolution"
      [] op = "sendto" -> "transmission"

\* the steps of the send that failed
FailedSteps ==
    {StepOf(calls[k].op) : k \in {j \in 1 .. Len(calls) :
                                     calls[j].op \in SendSteps /\ ~calls[j].ok}}

\* the one step a caller can read off a returned cause
StepOfCause(code) ==
    CASE code = WinsockInitializationFailed -> {"subsystem init"}
      [] code = SocketCreationFailed -> {"socket creation"}
      [] code = BroadcastSetupFailed -> {"broadcast option"}
      [] code = PacketSendFailed -> {"transmission"}
      [] OTHER -> {}

\* C13: the code a send returns tells which transport step failed: the
\* cause returned when setsockopt fails stands for that step only, and a
\* failed address conversion is returned with a cause of its own.
C13_CauseIdentifiesStep ==
    pc = "exit" /\ FailedSteps # {} =>
        /\ errorCode # Success
        /\ (errorCode = BroadcastSetupFailed => FailedSteps = {"broadcast option"})
        /\ ("address resolution" \notin FailedSteps => FailedSteps = StepOfCause(errorCode))

\* a send whose setsockopt succeeded and whose address conversion failed has
\* returned BroadcastSetupFailed
C13_ConversionReportedAsBroadcast ==
    /\ pc = "exit"
    /\ errorCode = BroadcastSetupFailed
    /\ \E k \in CallsOf("setsockopt") : calls[k].ok
    /\ \E k \in CallsOf("WideCharToMultiByte") : ~calls[k].ok

-----------------------------------------------------------------------------
(* C14 *)

\* C14: a send returns Success only if sendto reported all 102 bytes sent;
\* when sendto reports fewer bytes or an error the send returns
\* PacketSendFailed.
C14_SuccessMeansAllBytesSent ==
    pc = "exit" =>
        \A k \in CallsOf("sendto") :
            IF calls[k].ret = 102
            THEN errorCode = Success
            ELSE errorCode = PacketSendFailed

\* sendto reported 101 bytes sent and the send has returned Success
C14_PartialSendSucceeded ==
    /\ pc = "exit"
    /\ errorCode = Success
    /\ \E k \in CallsOf("sendto") : calls[k].ret = 101

-----------------------------------------------------------------------------
(* C15 *)

\* C15: the result of a send does not depend on the outcome of WSAIoctl,
\* and the failure of any other operation the send makes (WSAStartup,
\* socket, setsockopt, WideCharToMultiByte, inet_pton, sendto, closesocket,
\* WSACleanup) makes the send return a code other than Success: a send
\* that has returned returned Success exactly when every operation but
\* WSAIoctl succeeded.
C15_OnlyIoctlIgnored ==
    pc = "exit" /\ calls # <<>> =>
        (errorCode = Success <=>
            \A k \in 1 .. Len(calls) : calls[k].op # "WSAIoctl" => calls[k].ok)

\* a send whose WSACleanup failed has returned Success
C15_CleanupFailureIgnored ==
    /\ pc = "exit"
    /\ errorCode = Success
    /\ \E k \in CallsOf("WSACleanup") : ~calls[k].ok

-----------------------------------------------------------------------------
(* C16 *)

\* positions (0-based) of a string of 1 to 17 characters whose character is
\* not what XX-XX-XX-XX-XX-XX has there
MacViolations(s) ==
    {i \in 0 .. Len(s) - 1 :
        IF i % 3 = 2 THEN s[i + 1] # "-" ELSE s[i + 1] \notin HexDigitChars}

FirstMacViolation(s) ==
    CHOOSE i \in MacViolations(s) : \A j \in MacViolations(s) : i <= j

\* C16: the result IsValidMacAddress returns for a wrong character at a
\* separator position differs from the result it returns for a non-hex
\* character at a digit position, and both differ from the result it
\* returns for the empty string.
C16_CausesDistinguished ==
    /\ fnRet.code \notin {"none", Success}
    /\ Len(fnArg) \in 1 .. 17
    /\ MacViolations(fnArg) # {}
    => /\ fnRet.code # IsValidMacAddress(<<>>)
       /\ FirstMacViolation(fnArg) % 3 = 2
             => fnRet.code # IsValidMacAddress(<<"G">>)
       /\ FirstMacViolation(fnArg) % 3 # 2
             => fnRet.code # IsValidMacAddress(<<"0", "0", ":">>)

\* A0:36-BC-BB-EB-CC has been rejected with the code of the empty string
C16_SeparatorReportedAsInvalidMac ==
    /\ fnArg = [ExampleMac EXCEPT ![3] = ":"]
    /\ fnRet.code = InvalidMacAddress
    /\ fnRet.code = IsValidMacAddress(<<>>)

-----------------------------------------------------------------------------
(* C17 *)

\* C17: whenever LoadFromIni has returned a code other than Success, the
\* configuration object holds no partial data: mMacAddress and mBroadcastIp
\* are empty and mPort is 0, whichever step failed.
C17_NoPartialData ==
    pc = "loaded" /\ errorCode # Success =>
        /\ mMacAddress = <<>>
        /\ mBroadcastIp = <<>>
        /\ mPort = 0

\* the load has failed at the port and left the MAC and the IP it read
C17_MacLeftAfterPortFailure ==
    /\ pc = "loaded"
    /\ errorCode = InvalidPort
    /\ mMacAddress = ExampleMac
    /\ mBroadcastIp = ExampleIp

-----------------------------------------------------------------------------
(* C18 *)

-----------------------------------------------------------------------------
(* C19 *)

\* C19: every port that LoadFromIni stored on returning Success satisfies
\* the assertion of SendMagicPacket (port != 0) and the assertion of
\* SetupBroadcastAddress (port != 0 && port < UINT16_MAX), and no send
\* aborts at the assertions of SetupBroadcastAddress, which it reaches once
\* WSAStartup was called.
C19_AcceptedPortMeetsAssertions ==
    /\ (pc # "main" /\ ConfigLoaded) => mPort # 0 /\ SetupPortAssertion(mPort)
    /\ pc = "aborted" => CallsOf("WSAStartup") = {}

\* Port=65535 was accepted and the debug build aborted in
\* SetupBroadcastAddress
C19_MaxPortAborted ==
    /\ pc = "aborted"
    /\ debugBuild
    /\ ConfigLoaded
    /\ iniPort = Key(<<"6", "5", "5", "3", "5">>)
    /\ mPort = UINT16_MAX
    /\ CallsOf("WSAStartup") # {}

-----------------------------------------------------------------------------
(* C20 *)

\* the six unsigned int fields swscanf_s leaves for a string, before they
\* are narrowed to bytes
ParsedFields(s) == ScanMacFields(s, 1, 0, ZeroMac).tempValues

\* C20: once ParseMacAddress has run on a string that IsValidMacAddress
\* accepted, exactly six fields were converted (the assertion scanResult == 6
\* held, so nothing aborted) and every field is at most 0xFF, so that no
\* value changed when it was narrowed to a byte.
C20_AcceptedMacParsesToSixBytes ==
    fnRet.code = Success /\ fnRet.scanResult # -1 =>
        /\ pc # "aborted"
        /\ fnRet.scanResult = MacSize
        /\ \A i \in 0 .. MacSize - 1 : ParsedFields(fnArg)[i] <= 255

\* A0-36-BC-BB-EB-CCF has been accepted and parsed: its last field, 0xCCF,
\* became the byte 0xCF
C20_FieldTruncated ==
    /\ fnArg = ExampleMac \o <<"F">>
    /\ fnRet.code = Success
    /\ fnRet.scanResult = MacSize
    /\ pc = "built"
    /\ ParsedFields(fnArg)[5] = 3279
    /\ macBytes[5] = 207

-----------------------------------------------------------------------------
(* C21 *)

\* no send is in progress before SendMagicPacket is entered and after it
\* has returned
NoSendInProgress == pc \in {"main", "loaded", "exit"}

\* C21: in every reachable state, WSAStartup succeeding or failing,
\* mRefCount is the number of WsaGuard objects alive whose Initialize
\* succeeded; it has not wrapped below 0; and it is 0 whenever no send is in
\* progress.
C21_RefCountCountsInitialisedGuards ==
    /\ mRefCount = Cardinality(InitialisedAlive(guards))
    /\ mRefCount >= 0
    /\ NoSendInProgress => mRefCount = 0

\* a send whose WSAStartup failed has returned, and its guard's destructor
\* has decremented the counter from 0
C21_WrappedAfterFailedStartup ==
    /\ pc = "exit"
    /\ errorCode = WinsockInitializationFailed
    /\ \E k \in CallsOf("WSAStartup") : ~calls[k].ok
    /\ guards[TheGuard].state = "destroyed"
    /\ mRefCount = -1

-----------------------------------------------------------------------------
(* C22 *)

\* the operations made on sockets
SocketOps == {"socket", "setsockopt", "WSAIoctl", "sendto", "closesocket"}

\* the sockets created: the successful ::socket calls
SocketsCreated == {k \in CallsOf("socket") : calls[k].ok}

\* the closesocket calls made on the handle of call k after it
ClosesOf(k) ==
    {j \in CallsOf("closesocket") : j > k /\ calls[j].h = calls[k].h}

\* C22: every socket operation of a send is made after a WSAStartup that
\* succeeded and before any WSACleanup; a WSACleanup is made only after the
\* closesocket of every socket the send created; and a send that has
\* returned has closed every socket it created.
C22_SocketUseInsideWinsock ==
    /\ \A k \in 1 .. Len(calls) : calls[k].op \in SocketOps =>
          /\ \E j \in 1 .. k - 1 : calls[j].op = "WSAStartup" /\ calls[j].ok
          /\ \A j \in 1 .. k - 1 : calls[j].op # "WSACleanup"
    /\ \A c \in CallsOf("WSACleanup") : \A k \in SocketsCreated :
          \E j \in ClosesOf(k) : j < c
    /\ pc = "exit" => \A k \in SocketsCreated : ClosesOf(k) # {}

\* a send that created a socket has returned: closesocket, then WSACleanup
C22_ClosedThenReleased ==
    /\ pc = "exit"
    /\ SocketsCreated # {}
    /\ \E c \in CallsOf("WSACleanup") : \A k \in SocketsCreated :
          \E j \in ClosesOf(k) : j < c

=============================================================================
